---------------------------- MODULE Spec2Model ----------------------------
(***************************************************************************)
(* Model of the cytogon cellular-automaton kernel (cytogon/src/lib.rs):    *)
(* the bit-packed grids Grid2 and Grid3, their accessors, fill, the        *)
(* separable neighbour counter, the rule stepper and the rule bitsets.     *)
(*                                                                         *)
(* Representation of machine words                                         *)
(*   - a packed word (u16, u32, u64 bit block) is the set of the indices   *)
(*     of its 1 bits, so  |  is \cup,  &  is \cap,  !x  is the complement  *)
(*     within the width, and  1 << n  is {n};                              *)
(*   - a u64 used as eight byte lanes (the counting buffers) is a function *)
(*     0..7 -> 0..255, byte k being bits 8k..8k+7 (little endian), with    *)
(*     64-bit addition carrying from one byte into the next;               *)
(*   - a Vec<T> is a function on 0..len-1, so indices are the source's.    *)
(***************************************************************************)
EXTENDS Integers, Sequences, FiniteSets, TLC

VARIABLES
    kind,             \* "Grid2" or "Grid3": the type of the grid under test
    size,             \* Grid::size, <<W, H>> or <<W, H, D>>
    data,             \* Grid::data, the block array
    overflow_checks,  \* TRUE: build with overflow checks (debug), FALSE: wrapping (release)
    status,           \* "ok", or "panic" once an operation has panicked
    prev,             \* data before the last operation
    last,             \* the last operation, its arguments and its result
    nops,             \* number of operations performed so far
    rb                \* rule-bitset machine: the value under construction

vars == <<kind, size, data, overflow_checks, status, prev, last, nops, rb>>

-----------------------------------------------------------------------------
(* Bounds of the model *)

\* Number of operations applied to a grid after Grid::new.
MaxOps == 2

-----------------------------------------------------------------------------
(* Machine words *)

\* Materialise a function value (TLC keeps [x \in S |-> e] lazy otherwise).
Force(f) == f @@ <<>>

Bits64 == 0..63

\* x << n and x >> n on a packed 64-bit word.
Shl64(x, n) == {i + n : i \in {j \in x : j + n <= 63}}
Shr64(x, n) == {i - n : i \in {j \in x : j >= n}}

Pow2(n) == 2 ^ n

\* Bit j of the byte a.
ByteBit(a, j) == (a \div Pow2(j)) % 2

\* a & b on one byte, bit by bit.
ByteAndBits(a, b) ==
    ByteBit(a, 0) * ByteBit(b, 0)
    + 2 * (ByteBit(a, 1) * ByteBit(b, 1))
    + 4 * (ByteBit(a, 2) * ByteBit(b, 2))
    + 8 * (ByteBit(a, 3) * ByteBit(b, 3))
    + 16 * (ByteBit(a, 4) * ByteBit(b, 4))
    + 32 * (ByteBit(a, 5) * ByteBit(b, 5))
    + 64 * (ByteBit(a, 6) * ByteBit(b, 6))
    + 128 * (ByteBit(a, 7) * ByteBit(b, 7))

\* a & b and a | b on one byte (a | b = a + b - (a & b)).
ByteAnd(a, b) ==
    IF a = 0 \/ b = 0 THEN 0
    ELSE IF a = 255 THEN b
    ELSE IF b = 255 THEN a
    ELSE ByteAndBits(a, b)

ByteOr(a, b) ==
    IF a = 0 THEN b
    ELSE IF b = 0 THEN a
    ELSE a + b - ByteAndBits(a, b)

Lanes == 0..7

ZeroLane == Force([k \in Lanes |-> 0])

\* The byte lanes of a packed word.
ToLane(x) ==
    Force([k \in Lanes |->
        (IF 8 * k \in x THEN 1 ELSE 0)
        + (IF 8 * k + 1 \in x THEN 2 ELSE 0)
        + (IF 8 * k + 2 \in x THEN 4 ELSE 0)
        + (IF 8 * k + 3 \in x THEN 8 ELSE 0)
        + (IF 8 * k + 4 \in x THEN 16 ELSE 0)
        + (IF 8 * k + 5 \in x THEN 32 ELSE 0)
        + (IF 8 * k + 6 \in x THEN 64 ELSE 0)
        + (IF 8 * k + 7 \in x THEN 128 ELSE 0)])

\* w >> 8n and w << 8n on a lane word (a shift by whole bytes).
LaneShr(w, n) == Force([k \in Lanes |-> IF k + n <= 7 THEN w[k + n] ELSE 0])
LaneShl(w, n) == Force([k \in Lanes |-> IF k >= n THEN w[k - n] ELSE 0])

LaneAnd(w, m) == Force([k \in Lanes |-> ByteAnd(w[k], m[k])])
LaneOr(a, b) == Force([k \in Lanes |-> ByteOr(a[k], b[k])])

\* a + b on u64: the carry of byte k goes into byte k + 1; the carry out of
\* byte 7 is lost (wrapping) or panics (overflow checks).
LaneSums(a, b) ==
    LET s0 == a[0] + b[0]
        s1 == a[1] + b[1] + (s0 \div 256)
        s2 == a[2] + b[2] + (s1 \div 256)
        s3 == a[3] + b[3] + (s2 \div 256)
        s4 == a[4] + b[4] + (s3 \div 256)
        s5 == a[5] + b[5] + (s4 \div 256)
        s6 == a[6] + b[6] + (s5 \div 256)
        s7 == a[7] + b[7] + (s6 \div 256)
    IN  <<s0, s1, s2, s3, s4, s5, s6, s7>>

LaneAdd(a, b) ==
    LET ss == LaneSums(a, b)
    IN  Force([k \in Lanes |-> ss[k + 1] % 256])

LaneAddOverflows(a, b) == LaneSums(a, b)[8] >= 256

\* The masks of acc_x as lane words (byte 0 first).
Mask_00FFFFFF_00FFFFFF == Force([k \in Lanes |-> IF k \in {3, 7} THEN 0 ELSE 255])
Mask_FFFFFF00_FFFFFF00 == Force([k \in Lanes |-> IF k \in {0, 4} THEN 0 ELSE 255])
Mask_000000FF_000000FF == Force([k \in Lanes |-> IF k \in {0, 4} THEN 255 ELSE 0])
Mask_FF000000_FF000000 == Force([k \in Lanes |-> IF k \in {3, 7} THEN 255 ELSE 0])

-----------------------------------------------------------------------------
(* BitBlock codec *)

\* Grid3::bit_to_byte without the final shifts: the masked bits stay where
\* the mask found them.
bit_to_byte_no_shift(b) ==
    LET x1 == b \cup Shl64(b, 8)
        x2 == x1 \cup Shl64(x1, 16)
        x3 == x2 \cup Shl64(x2, 32)
    IN  x3 \cap {0, 9, 18, 27, 36, 45, 54, 63}

\* Grid3::bit_to_byte
bit_to_byte(b) ==
    LET x1 == b \cup Shl64(b, 8)
        x2 == x1 \cup Shl64(x1, 16)
        x3 == x2 \cup Shl64(x2, 32)
        x == x3 \cap {0, 9, 18, 27, 36, 45, 54, 63}  \* 0x8040201008040201
    IN  Shr64(x \cap {63}, 7)
        \cup Shr64(x \cap {54}, 6)
        \cup Shr64(x \cap {45}, 5)
        \cup Shr64(x \cap {36}, 4)
        \cup Shr64(x \cap {27}, 3)
        \cup Shr64(x \cap {18}, 2)
        \cup Shr64(x \cap {9}, 1)
        \cup (x \cap {0})

\* Grid3::decompress_block with the words in reverse order.
decompress_block_reversed(b) ==
    Force([i \in Lanes |->
        ToLane(bit_to_byte(Shr64(b \cap ((8 * (7 - i))..(8 * (7 - i) + 7)), 8 * (7 - i))))])

\* Grid3::decompress_block: word i is bit_to_byte((b & (0xFF << 8i)) >> 8i).
decompress_block(b) ==
    Force([i \in Lanes |->
        ToLane(bit_to_byte(Shr64(b \cap ((8 * i)..(8 * i + 7)), 8 * i)))])

-----------------------------------------------------------------------------
(* Grid3: layout *)

\* u32::div_ceil
div_ceil(n, d) == (n + d - 1) \div d

\* Grid3::get_bitblock_count rounding down.
Grid3_get_bitblock_count_floor(sz) ==
    (sz[1] \div 4) * (sz[2] \div 4) * (sz[3] \div 4)

\* Grid3::get_bitblock_count
Grid3_get_bitblock_count(sz) ==
    div_ceil(sz[1], 4) * div_ceil(sz[2], 4) * div_ceil(sz[3], 4)

\* The position of block ib in the block grid, as the loops of acc_x, acc_y
\* and acc_z track it in bpos (x wraps at block_count.x, y at block_count.y).
bpos(ib, block_count) ==
    <<ib % block_count[1],
      (ib \div block_count[1]) % block_count[2],
      ib \div (block_count[1] * block_count[2])>>

\* A counting buffer of nb blocks, all zero (counts.resize(capacity, 0)).
ZeroBlock == Force([i \in Lanes |-> ZeroLane])
ZeroCounts(nb) == Force([ib \in 0..(nb - 1) |-> ZeroBlock])

NumBlocks(block_count) == block_count[1] * block_count[2] * block_count[3]

-----------------------------------------------------------------------------
(* Grid3: separable neighbour counter *)

\* One block of Grid3::acc_x whose fixups from the X- and X+ blocks add the
\* shifted block without masking it to the face.
acc_x_block_unmasked_fixup(src, ib, block_count) ==
    LET b == decompress_block(src[ib])
        bp == bpos(ib, block_count)
        acc0 == [i \in Lanes |->
            LET xm == LaneAnd(LaneShr(b[i], 1), Mask_00FFFFFF_00FFFFFF)
                xp == LaneAnd(LaneShl(b[i], 1), Mask_FFFFFF00_FFFFFF00)
            IN  LaneAdd(b[i], LaneAdd(xm, xp))]
        acc1 == IF bp[1] > 0
                THEN LET xmb == decompress_block(src[ib - 1])
                     IN  [i \in Lanes |-> LaneAdd(acc0[i], LaneShr(xmb[i], 3))]
                ELSE acc0
        acc2 == IF bp[1] + 1 < block_count[1]
                THEN LET xpb == decompress_block(src[ib + 1])
                     IN  [i \in Lanes |-> LaneAdd(acc1[i], LaneShl(xpb[i], 3))]
                ELSE acc1
    IN  Force(acc2)

\* One block of Grid3::acc_x.
acc_x_block(src, ib, block_count) ==
    LET b == decompress_block(src[ib])
        bp == bpos(ib, block_count)
        acc0 == [i \in Lanes |->
            LET xm == LaneAnd(LaneShr(b[i], 1), Mask_00FFFFFF_00FFFFFF)
                xp == LaneAnd(LaneShl(b[i], 1), Mask_FFFFFF00_FFFFFF00)
            IN  LaneAdd(b[i], LaneAdd(xm, xp))]
        acc1 == IF bp[1] > 0
                THEN LET xmb == decompress_block(src[ib - 1])
                     IN  [i \in Lanes |->
                            LaneAdd(acc0[i],
                                LaneAnd(LaneShr(xmb[i], 3), Mask_000000FF_000000FF))]
                ELSE acc0
        acc2 == IF bp[1] + 1 < block_count[1]
                THEN LET xpb == decompress_block(src[ib + 1])
                     IN  [i \in Lanes |->
                            LaneAdd(acc1[i],
                                LaneAnd(LaneShl(xpb[i], 3), Mask_FF000000_FF000000))]
                ELSE acc1
    IN  Force(acc2)

\* Grid3::acc_x: the loop runs over the blocks of src; counts holds
\* NumBlocks(block_count) blocks and keeps 0 where the loop writes nothing.
acc_x(src, block_count) ==
    Force([ib \in 0..(NumBlocks(block_count) - 1) |->
        IF ib \in DOMAIN src THEN acc_x_block(src, ib, block_count) ELSE ZeroBlock])

\* One block of Grid3::acc_y.
acc_y_block(prv, ib, block_count) ==
    LET b == prv[ib]
        dy == block_count[1]
        bp == bpos(ib, block_count)
        acc0 == [i \in Lanes |->
            LET ym0 == LaneShr(b[i], 4)
                ym == IF i % 2 = 0 THEN LaneOr(ym0, LaneShl(b[i + 1], 4)) ELSE ym0
                yp0 == LaneShl(b[i], 4)
                yp == IF i % 2 # 0 THEN LaneOr(yp0, LaneShr(b[i - 1], 4)) ELSE yp0
            IN  LaneAdd(b[i], LaneAdd(ym, yp))]
        acc1 == IF bp[2] > 0
                THEN LET ymb == prv[ib - dy]
                     IN  [i \in Lanes |->
                            IF i % 2 = 0
                            THEN LaneAdd(acc0[i], LaneShr(ymb[i + 1], 4))
                            ELSE acc0[i]]
                ELSE acc0
        acc2 == IF bp[2] + 1 < block_count[2]
                THEN LET ypb == prv[ib + dy]
                     IN  [i \in Lanes |->
                            IF i % 2 = 1
                            THEN LaneAdd(acc1[i], LaneShl(ypb[i - 1], 4))
                            ELSE acc1[i]]
                ELSE acc1
    IN  Force(acc2)

\* Grid3::acc_y
acc_y(src, block_count) ==
    Force([ib \in DOMAIN src |-> acc_y_block(src, ib, block_count)])

\* One block of Grid3::acc_z.
acc_z_block(prv, ib, block_count) ==
    LET b == prv[ib]
        dz == block_count[1] * block_count[2]
        bp == bpos(ib, block_count)
        acc0 == [i \in Lanes |-> IF i >= 2 THEN LaneAdd(b[i], b[i - 2]) ELSE b[i]]
        acc1 == [i \in Lanes |-> IF i < 6 THEN LaneAdd(acc0[i], b[i + 2]) ELSE acc0[i]]
        acc2 == IF bp[3] > 0
                THEN LET zm == prv[ib - dz]
                     IN  [i \in Lanes |->
                            IF i < 2 THEN LaneAdd(acc1[i], zm[i + 6]) ELSE acc1[i]]
                ELSE acc1
        acc3 == IF bp[3] + 1 < block_count[3]
                THEN LET zp == prv[ib + dz]
                     IN  [i \in Lanes |->
                            IF i >= 6 THEN LaneAdd(acc2[i], zp[i - 6]) ELSE acc2[i]]
                ELSE acc2
    IN  Force(acc3)

\* Grid3::acc_z
acc_z(src, block_count) ==
    Force([ib \in DOMAIN src |-> acc_z_block(src, ib, block_count)])

\* u8 subtraction a - b, wrapping.
U8Sub(a, b) == (a - b + 256) % 256

\* Grid3::count_neighbors_separable_m without the final subtraction of the
\* cell itself.
separable_blocks_no_self_sub(sz, dat) ==
    LET block_count == <<(sz[1] + 3) \div 4, (sz[2] + 3) \div 4, (sz[3] + 3) \div 4>>
    IN  acc_z(acc_y(acc_x(dat, block_count), block_count), block_count)

\* Grid3::count_neighbors_separable_m (default is ignored by the code).
\* The result is the Vec<u8> counts, seen as blocks of 8 lanes of 8 bytes.
separable_blocks(sz, dat) ==
    LET block_count == <<(sz[1] + 3) \div 4, (sz[2] + 3) \div 4, (sz[3] + 3) \div 4>>
        cx == acc_x(dat, block_count)
        cy == acc_y(cx, block_count)
        cz == acc_z(cy, block_count)
    IN  Force([ib \in DOMAIN cz |->
            IF ib \in DOMAIN dat
            THEN LET b == decompress_block(dat[ib])
                 IN  Force([i \in Lanes |->
                        Force([k \in Lanes |-> U8Sub(cz[ib][i][k], b[i][k])])])
            ELSE cz[ib]])

\* Entry n of the byte vector behind a counting buffer (bytemuck::cast_slice).
CountsAt(blocks, n) == blocks[n \div 64][(n % 64) \div 8][n % 8]

-----------------------------------------------------------------------------
(* Option values and panics *)

None == [tag |-> "None"]
Some(v) == [tag |-> "Some", val |-> v]
\* An operation that panicked (index out of bounds, unwrap of None,
\* arithmetic overflow with overflow checks).
Panic == [tag |-> "Panic"]
\* The result of an operation that returned normally.
Ok(v) == [tag |-> "Ok", val |-> v]

-----------------------------------------------------------------------------
(* Grid3: accessors *)

\* Grid3::resolve with the upper bound of x tested with > instead of >=.
Grid3_resolve_x_inclusive(sz, pos) ==
    IF pos[1] < 0 \/ pos[2] < 0 \/ pos[3] < 0
       \/ pos[1] > sz[1] \/ pos[2] >= sz[2] \/ pos[3] >= sz[3]
    THEN None
    ELSE LET index == (pos[3] \div 4) * (sz[2] \div 4) * (sz[1] \div 4)
                      + (pos[2] \div 4) * (sz[1] \div 4)
                      + (pos[1] \div 4)
             bit == (pos[1] % 4) + 4 * (pos[2] % 4) + 16 * (pos[3] % 4)
         IN  Some(<<index, bit>>)

\* Grid3::resolve
Grid3_resolve(sz, pos) ==
    IF pos[1] < 0 \/ pos[2] < 0 \/ pos[3] < 0
       \/ pos[1] >= sz[1] \/ pos[2] >= sz[2] \/ pos[3] >= sz[3]
    THEN None
    ELSE LET index == (pos[3] \div 4) * (sz[2] \div 4) * (sz[1] \div 4)
                      + (pos[2] \div 4) * (sz[1] \div 4)
                      + (pos[1] \div 4)
             bit == (pos[1] % 4) + 4 * (pos[2] % 4) + 16 * (pos[3] % 4)
         IN  Some(<<index, bit>>)

\* Grid3::cell (through resolve_bit); data[index] panics out of bounds.
Grid3_cell(sz, dat, pos) ==
    LET r == Grid3_resolve(sz, pos)
    IN  IF r = None THEN None
        ELSE IF r.val[1] \notin DOMAIN dat THEN Panic
        ELSE Some(r.val[2] \in dat[r.val[1]])

\* Grid3::set_cell that sets bits and never clears one.
Grid3_set_cell_never_clears(sz, dat, pos, value) ==
    LET r == Grid3_resolve(sz, pos)
    IN  IF r = None THEN Ok(dat)
        ELSE IF r.val[1] \notin DOMAIN dat THEN Panic
        ELSE IF value
             THEN Ok([dat EXCEPT ![r.val[1]] = @ \cup {r.val[2]}])
             ELSE Ok(dat)

\* Grid3::set_cell (through resolve_bit): Ok(the new data), or Panic.
Grid3_set_cell(sz, dat, pos, value) ==
    LET r == Grid3_resolve(sz, pos)
    IN  IF r = None THEN Ok(dat)
        ELSE IF r.val[1] \notin DOMAIN dat THEN Panic
        ELSE IF value
             THEN Ok([dat EXCEPT ![r.val[1]] = @ \cup {r.val[2]}])
             ELSE Ok([dat EXCEPT ![r.val[1]] = @ \ {r.val[2]}])

\* Vec::resize(new_len, value): truncates, or appends copies of value; the
\* elements already there are kept.
resize(dat, new_len, value) ==
    Force([i \in 0..(new_len - 1) |-> IF i \in DOMAIN dat THEN dat[i] ELSE value])

\* Grid3::fill
Grid3_fill(sz, dat, value) ==
    resize(dat, Grid3_get_bitblock_count(sz), IF value THEN Bits64 ELSE {})

\* Draw number n of the injected PRNG started in state seed, as p * 4 for the
\* p in [0, 1] that gen_range(0.0..=1.0) returns (in quarters).
prng_draw(seed, n) == ((seed + 1) * (n + 3) + (n \div 7)) % 5

\* fill_rand (free function): block i takes draws 64i .. 64i+63, bit b is
\* set iff p < fill_ratio (fill_ratio in quarters too).
fill_rand(capacity, fill_ratio, seed) ==
    Force([i \in 0..(capacity - 1) |->
        {b \in Bits64 : prng_draw(seed, 64 * i + b) < fill_ratio}])

\* Grid3::fill_rand or-ing the drawn blocks into the blocks already there.
Grid3_fill_rand_keeps_old(sz, fill_ratio, seed) ==
    LET new == fill_rand(Grid3_get_bitblock_count(sz), fill_ratio, seed)
    IN  Force([i \in DOMAIN new |->
            new[i] \cup (IF i \in DOMAIN data THEN data[i] ELSE {})])

\* Grid3::fill_rand
Grid3_fill_rand(sz, fill_ratio, seed) ==
    fill_rand(Grid3_get_bitblock_count(sz), fill_ratio, seed)

\* Grid3::count_neighbors_single: Ok(the count), or Panic.
Grid3_count_neighbors_single(sz, dat, pos, default) ==
    LET nb == {<<pos[1] + i, pos[2] + j, pos[3] + k>> : i \in -1..1, j \in -1..1, k \in -1..1}
                 \ {pos}
        cells == [q \in nb |-> Grid3_cell(sz, dat, q)]
    IN  IF \E q \in nb : cells[q] = Panic THEN Panic
        ELSE Ok(Cardinality({q \in nb :
                IF cells[q] = None THEN default ELSE cells[q].val}))

\* Grid3::count_neighbors (dispatches to the separable counter)
Grid3_count_neighbors(sz, dat, default) == separable_blocks(sz, dat)

\* Grid3::count_neighbors_ref: Ok(counts), indexed k * H * W + j * W + i, or
\* Panic. The outer loop is  for k in [0, size.z - 1] : the two slabs named
\* by the array, the others keep the 0 of counts.resize.
Grid3_count_neighbors_ref(sz, dat, default) ==
    LET capacity == sz[1] * sz[2] * sz[3]
        slabs == {0, sz[3] - 1}
        written == {<<i, j, k>> : i \in 0..(sz[1] - 1), j \in 0..(sz[2] - 1), k \in slabs}
        index(p) == p[3] * sz[2] * sz[1] + p[2] * sz[1] + p[1]
        single(p) == Grid3_count_neighbors_single(sz, dat, p, default)
    IN  IF \E p \in written : single(p).tag = "Panic" THEN Panic
        ELSE IF \E p \in written : index(p) \notin 0..(capacity - 1)
        THEN Panic  \* counts[index as usize]
        ELSE Ok(Force([n \in 0..(capacity - 1) |->
                LET k == n \div (sz[2] * sz[1])
                    j == (n % (sz[2] * sz[1])) \div sz[1]
                    i == n % sz[1]
                IN  IF k \in slabs THEN single(<<i, j, k>>).val ELSE 0]))

\* u32 subtraction n - 1 with n = 0: panics with overflow checks, wraps to
\* u32::MAX without.
Underflows(sz) == \E a \in DOMAIN sz : sz[a] = 0

\* The number of indices of a loop 0..=max that the model follows: for
\* max = n - 1 with n > 0 all n of them; for the wrapped max = u32::MAX
\* (n = 0) only index 0: size is 0 in that axis, so every index of the loop
\* addresses a position outside the grid and does what index 0 does.
LoopCount(n) == IF n = 0 THEN 1 ELSE n

\* The body of the loop of Grid3::apply_rule_ref testing rule.birth for alive
\* cells too.
Grid3_apply_cell_birth_only(sz, d, counts, rule, pos) ==
    IF d.tag = "Panic" THEN Panic
    ELSE LET c0 == Grid3_cell(sz, d.val, pos)
             r == Grid3_resolve(sz, pos)
         IN  IF c0.tag # "Some" \/ r.tag # "Some" THEN Panic
             ELSE LET n == r.val[1] * 64 + r.val[2]
                  IN  IF n \div 64 \notin DOMAIN counts THEN Panic
                      ELSE Grid3_set_cell(sz, d.val, pos,
                                          CountsAt(counts, n) \in rule.birth)

\* The body of the loop of Grid3::apply_rule_ref at pos (default = false, so
\* the border branch is never taken); d is Ok(self.data) or Panic.
Grid3_apply_cell(sz, d, counts, rule, pos) ==
    IF d.tag = "Panic" THEN Panic
    ELSE LET c0 == Grid3_cell(sz, d.val, pos)
             r == Grid3_resolve(sz, pos)
         IN  IF c0.tag # "Some" \/ r.tag # "Some" THEN Panic  \* unwrap()
             ELSE LET n == r.val[1] * 64 + r.val[2]
                  IN  IF n \div 64 \notin DOMAIN counts THEN Panic
                      ELSE LET c == CountsAt(counts, n)
                           IN  IF c0.val
                               THEN Grid3_set_cell(sz, d.val, pos, c \in rule.survive)
                               ELSE Grid3_set_cell(sz, d.val, pos, c \in rule.birth)

\* for i in 0..=imax, from index i on (a panic ends the loops)
RECURSIVE Grid3_apply_row(_, _, _, _, _, _, _)
Grid3_apply_row(sz, d, counts, rule, i, j, k) ==
    IF i >= LoopCount(sz[1]) THEN d
    ELSE LET d1 == Grid3_apply_cell(sz, d, counts, rule, <<i, j, k>>)
         IN  IF d1.tag = "Panic" THEN Panic
             ELSE Grid3_apply_row(sz, d1, counts, rule, i + 1, j, k)

\* for j in 0..=jmax, from index j on
RECURSIVE Grid3_apply_slab(_, _, _, _, _, _)
Grid3_apply_slab(sz, d, counts, rule, j, k) ==
    IF j >= LoopCount(sz[2]) THEN d
    ELSE LET d1 == Grid3_apply_row(sz, d, counts, rule, 0, j, k)
         IN  IF d1.tag = "Panic" THEN Panic
             ELSE Grid3_apply_slab(sz, d1, counts, rule, j + 1, k)

\* for k in 0..=kmax, from index k on
RECURSIVE Grid3_apply_all(_, _, _, _, _)
Grid3_apply_all(sz, d, counts, rule, k) ==
    IF k >= LoopCount(sz[3]) THEN d
    ELSE LET d1 == Grid3_apply_slab(sz, d, counts, rule, 0, k)
         IN  IF d1.tag = "Panic" THEN Panic
             ELSE Grid3_apply_all(sz, d1, counts, rule, k + 1)

\* Grid3::apply_rule = Grid3::apply_rule_ref: Ok(the new data), or Panic.
Grid3_apply_rule(sz, dat, rule, checks) ==
    IF Underflows(sz) /\ checks THEN Panic
    ELSE Grid3_apply_all(sz, Ok(dat), Grid3_count_neighbors(sz, dat, FALSE), rule, 0)

-----------------------------------------------------------------------------
(* Rule bitsets (sets of bit indices) and rules *)

\* RuleBitset2::to_array / RuleBitset3::to_array: entry i is bit i.
RuleBitset2_to_array(bits) == [i \in 0..8 |-> i \in bits]
RuleBitset3_to_array(bits) == [i \in 0..26 |-> i \in bits]

\* RuleBitset2::from_bits with the mask 0xFC00, which lets bit 9 through.
RuleBitset2_from_bits_mask_FC00(bits) ==
    IF bits \cap (10..15) # {} THEN Panic ELSE Ok(bits)

\* RuleBitset2::from_bits: asserts bits & 0xFE00 == 0.
RuleBitset2_from_bits(bits) ==
    IF bits \cap (9..15) # {} THEN Panic ELSE Ok(bits)

\* RuleBitset3::from_bits: asserts bits & 0xF800_0000 == 0.
RuleBitset3_from_bits(bits) ==
    IF bits \cap (27..31) # {} THEN Panic ELSE Ok(bits)

\* RuleBitset2::to_bits / RuleBitset3::to_bits: the wrapped word.
to_bits(r) == r

\* From<u16> for RuleBitset2 / From<u32> for RuleBitset3: wraps the word.
RuleBitset2_from_u16(value) == Ok(value)
RuleBitset3_from_u32(value) == Ok(value)

\* From<Range<u8>> for RuleBitset2: asserts end <= 8.
RuleBitset2_from_range(start, end) ==
    IF ~(end <= 8) THEN Panic ELSE Ok({b \in 0..15 : start <= b /\ b < end})

\* From<RangeInclusive<u8>> for RuleBitset2: asserts end <= 8.
RuleBitset2_from_range_inclusive(start, end) ==
    IF ~(end <= 8) THEN Panic ELSE Ok({b \in 0..15 : start <= b /\ b <= end})

\* From<Range<u8>> for RuleBitset3: asserts end <= 27.
RuleBitset3_from_range(start, end) ==
    IF ~(end <= 27) THEN Panic ELSE Ok({b \in 0..31 : start <= b /\ b < end})

\* From<RangeInclusive<u8>> for RuleBitset3: asserts end <= 27.
RuleBitset3_from_range_inclusive(start, end) ==
    IF ~(end <= 27) THEN Panic ELSE Ok({b \in 0..31 : start <= b /\ b <= end})

\* From<[bool; 9]> for RuleBitset2 / From<[bool; 27]> for RuleBitset3: the
\* fold sets bit i iff value[i].
from_array(value) == Ok({i \in DOMAIN value : value[i]})

\* From<&[bool]> for RuleBitset2: asserts len <= 9.
RuleBitset2_from_slice(value) ==
    IF ~(Cardinality(DOMAIN value) <= 9) THEN Panic
    ELSE Ok({i \in DOMAIN value : value[i]})

\* From<&[bool]> for RuleBitset3: asserts len <= 27.
RuleBitset3_from_slice(value) ==
    IF ~(Cardinality(DOMAIN value) <= 27) THEN Panic
    ELSE Ok({i \in DOMAIN value : value[i]})

\* BitOr::bitor computing & in place of |.
bitor_and(a, b) == to_bits(a) \cap to_bits(b)

\* BitOr::bitor and or_with.
bitor(a, b) == to_bits(a) \cup to_bits(b)
or_with(a, b) == a \cup b

\* Rule2::SMOOTH: birth 0x1E0, survive 0x1F0.
Rule2_SMOOTH == [birth |-> {5, 6, 7, 8}, survive |-> {4, 5, 6, 7, 8}]

\* Rule3::SMOOTH with birth 0xF_E000 (13..=19, counts 15 and 16 added).
Rule3_SMOOTH_birth_13_19 == [birth |-> 13..19, survive |-> 13..26]

\* Rule3::SMOOTH: birth 0xE_6000, survive 0x7FF_E000.
Rule3_SMOOTH == [birth |-> {13, 14, 17, 18, 19}, survive |-> 13..26]

-----------------------------------------------------------------------------
(* Grid2 *)

\* Grid2::get_bitblock_count
Grid2_get_bitblock_count(sz) == div_ceil(sz[1], 8) * div_ceil(sz[2], 8)

\* The block index i0 = index >> 6 and the bit index & 0x3F of an in-range
\* position, with index = y * W + x, as Grid2::cell and Grid2::set_cell
\* compute them.
Grid2_index_bit(sz, pos) ==
    LET index == pos[2] * sz[1] + pos[1]
    IN  <<index \div 64, index % 64>>

\* Grid2::cell
Grid2_cell(sz, dat, pos) ==
    IF pos[1] < 0 \/ pos[2] < 0 \/ pos[1] >= sz[1] \/ pos[2] >= sz[2]
    THEN None
    ELSE LET i0 == Grid2_index_bit(sz, pos)[1]
             i1 == Grid2_index_bit(sz, pos)[2]
         IN  IF i0 \notin DOMAIN dat THEN Panic ELSE Some(i1 \in dat[i0])

\* Grid2::set_cell: Ok(the new data), or Panic.
Grid2_set_cell(sz, dat, pos, value) ==
    IF pos[1] < 0 \/ pos[2] < 0 \/ pos[1] >= sz[1] \/ pos[2] >= sz[2]
    THEN Ok(dat)
    ELSE LET i0 == Grid2_index_bit(sz, pos)[1]
             i1 == Grid2_index_bit(sz, pos)[2]
         IN  IF i0 \notin DOMAIN dat THEN Panic
             ELSE IF value
                  THEN Ok([dat EXCEPT ![i0] = @ \cup {i1}])
                  ELSE Ok([dat EXCEPT ![i0] = @ \ {i1}])

\* Grid2::fill
Grid2_fill(sz, dat, value) ==
    resize(dat, Grid2_get_bitblock_count(sz), IF value THEN Bits64 ELSE {})

\* Grid2::fill_rand
Grid2_fill_rand(sz, fill_ratio, seed) ==
    fill_rand(Grid2_get_bitblock_count(sz), fill_ratio, seed)

\* Grid2::count_neighbors: Ok(the count), or Panic.
Grid2_count_neighbors(sz, dat, pos, default) ==
    LET nb == {<<pos[1] + i, pos[2] + j>> : i \in -1..1, j \in -1..1} \ {pos}
        cells == [q \in nb |-> Grid2_cell(sz, dat, q)]
    IN  IF \E q \in nb : cells[q] = Panic THEN Panic
        ELSE Ok(Cardinality({q \in nb :
                IF cells[q] = None THEN default ELSE cells[q].val}))

\* The loop body of Grid2::apply_rule counting in the grid being written
\* instead of the clone taken before the loop.
Grid2_apply_cell_in_place(sz, d, old, rule, pos) ==
    IF d.tag = "Panic" THEN Panic
    ELSE LET c == Grid2_count_neighbors(sz, d.val, pos, FALSE)
             cur == Grid2_cell(sz, d.val, pos)
             survive == RuleBitset2_to_array(rule.survive)
             birth == RuleBitset2_to_array(rule.birth)
         IN  IF c = Panic \/ cur = Panic THEN Panic
             ELSE IF (IF cur = None THEN FALSE ELSE cur.val)
                  THEN IF ~survive[c.val]
                       THEN Grid2_set_cell(sz, d.val, pos, FALSE) ELSE d
                  ELSE IF birth[c.val]
                       THEN Grid2_set_cell(sz, d.val, pos, TRUE) ELSE d

\* The body of the loop of Grid2::apply_rule at pos (default = false, so the
\* border branch is never taken); d is Ok(self.data) or Panic.
Grid2_apply_cell(sz, d, old, rule, pos) ==
    IF d.tag = "Panic" THEN Panic
    ELSE LET c == Grid2_count_neighbors(sz, old, pos, FALSE)
             cur == Grid2_cell(sz, d.val, pos)
             survive == RuleBitset2_to_array(rule.survive)
             birth == RuleBitset2_to_array(rule.birth)
         IN  IF c = Panic \/ cur = Panic THEN Panic
             ELSE IF (IF cur = None THEN FALSE ELSE cur.val)   \* unwrap_or(false)
                  THEN IF ~survive[c.val]
                       THEN Grid2_set_cell(sz, d.val, pos, FALSE) ELSE d
                  ELSE IF birth[c.val]
                       THEN Grid2_set_cell(sz, d.val, pos, TRUE) ELSE d

\* for i in 0..=imax, from index i on
RECURSIVE Grid2_apply_row(_, _, _, _, _, _)
Grid2_apply_row(sz, d, old, rule, i, j) ==
    IF i >= LoopCount(sz[1]) THEN d
    ELSE LET d1 == Grid2_apply_cell(sz, d, old, rule, <<i, j>>)
         IN  IF d1.tag = "Panic" THEN Panic
             ELSE Grid2_apply_row(sz, d1, old, rule, i + 1, j)

\* for j in 0..=jmax, from index j on
RECURSIVE Grid2_apply_all(_, _, _, _, _)
Grid2_apply_all(sz, d, old, rule, j) ==
    IF j >= LoopCount(sz[2]) THEN d
    ELSE LET d1 == Grid2_apply_row(sz, d, old, rule, 0, j)
         IN  IF d1.tag = "Panic" THEN Panic
             ELSE Grid2_apply_all(sz, d1, old, rule, j + 1)

\* Grid2::apply_rule: Ok(the new data), or Panic.
Grid2_apply_rule(sz, dat, rule, checks) ==
    IF Underflows(sz) /\ checks THEN Panic
    ELSE Grid2_apply_all(sz, Ok(dat), dat, rule, 0)

-----------------------------------------------------------------------------
(* The grid under test: inputs *)

\* Sizes of the grids under test: a zero dimension, a size below one block,
\* whole blocks, and sizes that are not multiples of the block edge.
Sizes2 == {<<0, 3>>, <<3, 3>>, <<8, 8>>, <<8, 9>>}
Sizes3 == {<<4, 4, 0>>, <<3, 3, 3>>, <<4, 4, 4>>, <<8, 4, 4>>, <<4, 8, 8>>, <<5, 5, 4>>}

\* Coordinates tried along an axis of length n: both borders, the cells on
\* each side of the first block boundary, and one step outside on each side.
ProbeCoords(n) == {c \in -1..n : c \in {-1, 0, 3, 4, n - 1, n}}

Positions(sz) ==
    IF Len(sz) = 2
    THEN {<<x, y>> : x \in ProbeCoords(sz[1]), y \in ProbeCoords(sz[2])}
    ELSE {<<x, y, z>> : x \in ProbeCoords(sz[1]), y \in ProbeCoords(sz[2]),
                        z \in ProbeCoords(sz[3])}

\* Every position of the grid, and the ring of positions one step outside.
AllPositions(sz) ==
    IF Len(sz) = 2
    THEN {<<x, y>> : x \in -1..sz[1], y \in -1..sz[2]}
    ELSE {<<x, y, z>> : x \in -1..sz[1], y \in -1..sz[2], z \in -1..sz[3]}

InRange(sz, pos) == \A a \in DOMAIN sz : 0 <= pos[a] /\ pos[a] < sz[a]

\* Positions written by set_cell: the in-range probes, and the positions
\* one step outside the grid on either side of one axis (the other
\* coordinates 0).
SetPositions(sz) ==
    {p \in Positions(sz) : InRange(sz, p)}
    \cup {p \in Positions(sz) :
            \E a \in DOMAIN sz :
                /\ p[a] \in {-1, sz[a]}
                /\ \A c \in DOMAIN sz \ {a} : p[c] = 0}

\* fill_rand inputs: the ratio in quarters, and the state of the PRNG.
Ratios == {0, 2, 4}
Seeds == {0, 1}

\* apply_rule inputs.
Rules2 == {Rule2_SMOOTH, [birth |-> {3}, survive |-> {2, 3}]}
Rules3 == {Rule3_SMOOTH, [birth |-> {1, 2, 3, 7}, survive |-> 0..9]}

-----------------------------------------------------------------------------
(* The grid under test: operations *)

cell(pos) ==
    IF kind = "Grid2" THEN Grid2_cell(size, data, pos) ELSE Grid3_cell(size, data, pos)

bitblock_count ==
    IF kind = "Grid2" THEN Grid2_get_bitblock_count(size)
    ELSE Grid3_get_bitblock_count(size)

\* The state after an operation whose outcome is res = Ok(new data) or Panic.
Finish(op, res) ==
    /\ prev' = data
    /\ last' = op
    /\ nops' = nops + 1
    /\ IF res.tag = "Ok"
       THEN data' = res.val /\ status' = "ok"
       ELSE data' = data /\ status' = "panic"
    /\ UNCHANGED <<kind, size, overflow_checks, rb>>

CanCall == status = "ok" /\ nops < MaxOps /\ kind \in {"Grid2", "Grid3"}

\* Grid2::fill / Grid3::fill
Fill ==
    /\ CanCall
    /\ \E value \in BOOLEAN :
        Finish([op |-> "fill", value |-> value],
               Ok(IF kind = "Grid2" THEN Grid2_fill(size, data, value)
                  ELSE Grid3_fill(size, data, value)))

\* Grid2::fill_rand / Grid3::fill_rand
FillRand ==
    /\ CanCall
    /\ \E fill_ratio \in Ratios, seed \in Seeds :
        Finish([op |-> "fill_rand", fill_ratio |-> fill_ratio, seed |-> seed],
               Ok(IF kind = "Grid2" THEN Grid2_fill_rand(size, fill_ratio, seed)
                  ELSE Grid3_fill_rand(size, fill_ratio, seed)))

\* Grid2::set_cell / Grid3::set_cell
SetCell ==
    /\ CanCall
    /\ \E pos \in SetPositions(size), value \in BOOLEAN :
        Finish([op |-> "set_cell", pos |-> pos, value |-> value],
               IF kind = "Grid2" THEN Grid2_set_cell(size, data, pos, value)
               ELSE Grid3_set_cell(size, data, pos, value))

\* Grid2::apply_rule / Grid3::apply_rule
ApplyRule ==
    /\ CanCall
    /\ \E rule \in (IF kind = "Grid2" THEN Rules2 ELSE Rules3) :
        Finish([op |-> "apply_rule", rule |-> rule],
               IF kind = "Grid2" THEN Grid2_apply_rule(size, data, rule, overflow_checks)
               ELSE Grid3_apply_rule(size, data, rule, overflow_checks))

\* Grid2::new / Grid3::new: the size is kept, the block array is empty.
Init ==
    /\ \/ kind = "Grid2" /\ size \in Sizes2
       \/ kind = "Grid3" /\ size \in Sizes3
    /\ data = <<>>
    \* The build matters only where arithmetic overflows, and the one
    \* operation that can is size - 1 on a zero dimension.
    /\ overflow_checks \in (IF Underflows(size) THEN BOOLEAN ELSE {TRUE})
    /\ status = "ok"
    /\ prev = <<>>
    /\ last = [op |-> "new"]
    /\ nops = 0
    /\ rb = None

Next == Fill \/ FillRand \/ SetCell \/ ApplyRule

Spec == Init /\ [][Next]_vars

-----------------------------------------------------------------------------
(* Properties of the grids (checked under Spec) *)

InRangePositions(sz) == {p \in AllPositions(sz) : InRange(sz, p)}

IsGrid == kind \in {"Grid2", "Grid3"}

\* The block array has been sized by fill or fill_rand.
Filled == IsGrid /\ DOMAIN data = 0..(bitblock_count - 1)

\* cell(pos) on the block array dat of the grid under test.
CellOf(dat, pos) ==
    IF kind = "Grid2" THEN Grid2_cell(size, dat, pos) ELSE Grid3_cell(size, dat, pos)

\* The Moore neighbourhood of p: the 8 (2D) or 26 (3D) surrounding positions.
Moore(p) ==
    IF Len(p) = 2
    THEN {<<p[1] + i, p[2] + j>> : i \in -1..1, j \in -1..1} \ {p}
    ELSE {<<p[1] + i, p[2] + j, p[3] + k>> : i \in -1..1, j \in -1..1, k \in -1..1} \ {p}

\* The number of alive cells among the in-grid Moore neighbours of p in dat.
AliveNeighbours(dat, p) ==
    Cardinality({q \in Moore(p) : InRange(size, q) /\ CellOf(dat, q) = Some(TRUE)})

\* The state of p after one synchronous step of rule on the generation old.
SteppedCell(old, rule, p) ==
    IF CellOf(old, p) = Some(TRUE)
    THEN AliveNeighbours(old, p) \in rule.survive
    ELSE AliveNeighbours(old, p) \in rule.birth

\* The (block index, bit) pairs that in-range positions are stored at.
Addressed ==
    IF kind = "Grid2"
    THEN {Grid2_index_bit(size, p) : p \in InRangePositions(size)}
    ELSE {Grid3_resolve(size, p).val : p \in InRangePositions(size)}

\* C1 (as claimed): on a filled Grid3 of any size, the separable counter
\* agrees with count_neighbors_single(p, false) at the buffer entry
\* index * 64 + bit of every in-range position p.
C1_OracleEquivalence ==
    (kind = "Grid3" /\ Filled /\ status = "ok") =>
        LET counts == separable_blocks(size, data)
        IN  \A p \in InRangePositions(size) :
                LET r == Grid3_resolve(size, p).val
                IN  Ok(CountsAt(counts, r[1] * 64 + r[2]))
                        = Grid3_count_neighbors_single(size, data, p, FALSE)

\* C2 (as claimed): after Grid3::apply_rule every in-range cell holds the
\* result of one synchronous step on the generation before the call: bit c
\* of survive if it was alive and bit c of birth if it was dead, c being the
\* number of its alive in-grid Moore neighbours before the call.
C2_Grid3SynchronousStep ==
    (kind = "Grid3" /\ last.op = "apply_rule" /\ status = "ok") =>
        \A p \in InRangePositions(size) :
            Grid3_cell(size, data, p) = Some(SteppedCell(prev, last.rule, p))

\* C3: after Grid2::apply_rule every in-range cell holds the result of one
\* synchronous step on the Moore-8 neighbourhood of the generation before
\* the call (out-of-grid neighbours dead): alive cells stay alive iff
\* survive[c], dead cells become alive iff birth[c].
C3_Grid2SynchronousStep ==
    (kind = "Grid2" /\ last.op = "apply_rule" /\ status = "ok") =>
        \A p \in InRangePositions(size) :
            Grid2_cell(size, data, p) = Some(SteppedCell(prev, last.rule, p))

\* C3 witness: a step of a Grid2 in which one cell is born and another dies.
C3_Witness ==
    /\ kind = "Grid2" /\ last.op = "apply_rule" /\ status = "ok"
    /\ \E p, q \in InRangePositions(size) :
        /\ Grid2_cell(size, prev, p) = Some(FALSE) /\ Grid2_cell(size, data, p) = Some(TRUE)
        /\ Grid2_cell(size, prev, q) = Some(TRUE) /\ Grid2_cell(size, data, q) = Some(FALSE)

\* C4 (as claimed): after fill(v) every in-range cell reads Some(v), whatever
\* the grid held before.
C4_FillSetsEveryCell ==
    (IsGrid /\ last.op = "fill" /\ status = "ok") =>
        \A p \in InRangePositions(size) : cell(p) = Some(last.value)

\* C5 (as claimed): every bit of data that no in-range position is stored at
\* (the padding of the blocks) is 0.
C5_PaddingIsZero ==
    IsGrid => \A ib \in DOMAIN data : \A bit \in data[ib] : <<ib, bit>> \in Addressed

\* C6: after set_cell(p, v) on a filled grid with p in range, cell(p) is
\* Some(v).
C6_AccessorRoundTrip ==
    (IsGrid /\ last.op = "set_cell" /\ status = "ok" /\ InRange(size, last.pos)) =>
        cell(last.pos) = Some(last.value)

\* C6 witness: set_cell(p, false) has cleared an alive in-range cell of a Grid3.
C6_Witness ==
    /\ kind = "Grid3" /\ last.op = "set_cell" /\ status = "ok"
    /\ InRange(size, last.pos) /\ ~last.value
    /\ Grid3_cell(size, prev, last.pos) = Some(TRUE)

\* C7: cell(pos) is None at every position outside the grid, and set_cell at
\* such a position returns normally and leaves every block of data as it was.
C7_OutOfRangeAccess ==
    IsGrid =>
        /\ \A p \in AllPositions(size) : ~InRange(size, p) => cell(p) = None
        /\ (last.op = "set_cell" /\ ~InRange(size, last.pos)) =>
                status = "ok" /\ data = prev

\* C7 witness: set_cell(pos, true) outside a filled Grid3 whose cells are dead.
C7_Witness ==
    /\ kind = "Grid3" /\ last.op = "set_cell" /\ ~InRange(size, last.pos)
    /\ last.value /\ status = "ok"
    /\ Filled /\ DOMAIN data # {} /\ \A ib \in DOMAIN data : data[ib] = {}

\* C8 (as claimed): Grid3::resolve is injective over the in-range positions
\* of a grid of any size, with bit = x%4 | (y%4)<<2 | (z%4)<<4.
C8_ResolveInjective ==
    kind = "Grid3" =>
        \A p, q \in InRangePositions(size) :
            /\ Grid3_resolve(size, p).val[2] = (p[1] % 4) + 4 * (p[2] % 4) + 16 * (p[3] % 4)
            /\ p # q => Grid3_resolve(size, p) # Grid3_resolve(size, q)

\* C9 (as claimed): on a grid with a zero dimension fill, fill_rand and
\* apply_rule return normally, the block array has length 0 and apply_rule
\* updates nothing.
C9_ZeroSizeIsValid ==
    (IsGrid /\ Underflows(size) /\ last.op \in {"fill", "fill_rand", "apply_rule"}) =>
        /\ status = "ok"
        /\ DOMAIN data = {}
        /\ data = prev

-----------------------------------------------------------------------------
(* The rule bitsets under test: a first value is built, then a second one,
   then the two are combined with | .  kind is "Rule2" or "Rule3"; rb is the
   value built last (Ok(word) or Panic), prev the one built before it.      *)

\* Words given to from_bits and From<u16> / From<u32>: every combination of
\* a few low bits, the highest valid bit, the lowest invalid bit and the top
\* bit of the word.
Words2 == SUBSET {0, 5, 8, 9, 15}
Words3 == SUBSET {0, 13, 26, 27, 31}

\* Range bounds (u8) given to the range conversions.
RangeStarts == {0, 3, 4, 5, 13, 17}
RangeEnds2 == 0..10
RangeEnds3 == {0, 4, 14, 19, 26, 27, 28}

\* Slice lengths given to From<&[bool]>.
SliceLens2 == {0, 5, 9, 10}
SliceLens3 == {0, 14, 27, 28}

\* The bool array of length len whose true entries are those of w.
BoolArray(w, len) == [i \in 0..(len - 1) |-> i \in w]

RuleCtor(op, res) ==
    /\ nops < 2
    /\ status = "ok"
    /\ prev' = rb
    /\ rb' = res
    /\ last' = op
    /\ nops' = nops + 1
    /\ status' = IF res.tag = "Ok" THEN "ok" ELSE "panic"
    /\ UNCHANGED <<kind, size, data, overflow_checks>>

FromBits ==
    \E bits \in (IF kind = "Rule2" THEN Words2 ELSE Words3) :
        RuleCtor([op |-> "from_bits", bits |-> bits],
                 IF kind = "Rule2" THEN RuleBitset2_from_bits(bits)
                 ELSE RuleBitset3_from_bits(bits))

FromWord ==
    \E value \in (IF kind = "Rule2" THEN Words2 ELSE Words3) :
        RuleCtor([op |-> "from_word", bits |-> value],
                 IF kind = "Rule2" THEN RuleBitset2_from_u16(value)
                 ELSE RuleBitset3_from_u32(value))

FromRange ==
    \E start \in RangeStarts, end \in (IF kind = "Rule2" THEN RangeEnds2 ELSE RangeEnds3) :
        RuleCtor([op |-> "from_range", start |-> start, end |-> end],
                 IF kind = "Rule2" THEN RuleBitset2_from_range(start, end)
                 ELSE RuleBitset3_from_range(start, end))

FromRangeInclusive ==
    \E start \in RangeStarts, end \in (IF kind = "Rule2" THEN RangeEnds2 ELSE RangeEnds3) :
        RuleCtor([op |-> "from_range_inclusive", start |-> start, end |-> end],
                 IF kind = "Rule2" THEN RuleBitset2_from_range_inclusive(start, end)
                 ELSE RuleBitset3_from_range_inclusive(start, end))

FromArray ==
    \E w \in (IF kind = "Rule2" THEN Words2 ELSE Words3) :
        LET value == BoolArray(w, IF kind = "Rule2" THEN 9 ELSE 27)
        IN  RuleCtor([op |-> "from_array", value |-> value], from_array(value))

FromSlice ==
    \E w \in (IF kind = "Rule2" THEN Words2 ELSE Words3),
       len \in (IF kind = "Rule2" THEN SliceLens2 ELSE SliceLens3) :
        LET value == BoolArray(w, len)
        IN  RuleCtor([op |-> "from_slice", value |-> value],
                     IF kind = "Rule2" THEN RuleBitset2_from_slice(value)
                     ELSE RuleBitset3_from_slice(value))

\* r1 | r2 on the two values built.
BitOr ==
    /\ nops = 2
    /\ status = "ok"
    /\ prev' = rb
    /\ rb' = Ok(bitor(prev.val, rb.val))
    /\ last' = [op |-> "bitor", lhs |-> prev.val, rhs |-> rb.val]
    /\ nops' = 3
    /\ UNCHANGED <<kind, size, data, overflow_checks, status>>

InitRule ==
    /\ kind \in {"Rule2", "Rule3"}
    /\ size = <<>>
    /\ data = <<>>
    /\ overflow_checks = TRUE
    /\ status = "ok"
    /\ prev = None
    /\ last = [op |-> "none"]
    /\ nops = 0
    /\ rb = None

NextRule ==
    FromBits \/ FromWord \/ FromRange \/ FromRangeInclusive \/ FromArray
    \/ FromSlice \/ BitOr

SpecRule == InitRule /\ [][NextRule]_vars

-----------------------------------------------------------------------------
(* Properties of the rule bitsets (checked under SpecRule) *)

\* The unused upper bits of the word: the top 7 of a u16, the top 5 of a u32.
UpperBits == IF kind = "Rule2" THEN 9..15 ELSE 27..31

\* C10: from_bits(bits) panics exactly when one of the unused upper bits is
\* set; otherwise it returns r with r.to_bits() = bits, the value From<u16>
\* / From<u32> builds from the same word.
C10_FromBits ==
    (kind \in {"Rule2", "Rule3"} /\ last.op = "from_bits") =>
        /\ status = "panic" <=> last.bits \cap UpperBits # {}
        /\ status = "panic" <=> rb = Panic
        /\ status = "ok" =>
            /\ to_bits(rb.val) = last.bits
            /\ rb = (IF kind = "Rule2" THEN RuleBitset2_from_u16(last.bits)
                     ELSE RuleBitset3_from_u32(last.bits))

\* C10 witness: RuleBitset2::from_bits has panicked on a word whose only
\* upper bit is the lowest one, bit 9.
C10_Witness ==
    /\ kind = "Rule2" /\ last.op = "from_bits" /\ status = "panic"
    /\ last.bits \cap UpperBits = {9}

\* The largest neighbour count of the dimension, and the valid counts.
MaxCount == IF kind = "Rule2" THEN 8 ELSE 26
Counts == 0..MaxCount

\* r.to_array() of the dimension under test.
to_array(r) ==
    IF kind = "Rule2" THEN RuleBitset2_to_array(r) ELSE RuleBitset3_to_array(r)

IsRule == kind \in {"Rule2", "Rule3"}

\* C11 (as claimed): every value a constructor or | has returned has its
\* unused upper bits zero, so to_bits() has the upper 7 (2D) or 5 (3D) bits
\* zero.
C11_UpperBitsZero ==
    (IsRule /\ rb.tag = "Ok") => to_bits(rb.val) \cap UpperBits = {}

\* C12 (as claimed): a half-open range a..b with b <= 9 (2D) or b <= 27
\* (3D), and a closed range a..=b with b <= 8 (2D) or b <= 26 (3D), converts
\* without a panic, and to_array()[i] is true exactly for the counts i of
\* the range.
C12_RangeConstruction ==
    /\ (IsRule /\ last.op = "from_range" /\ last.end <= MaxCount + 1) =>
        /\ status = "ok"
        /\ rb.tag = "Ok"
        /\ \A i \in Counts :
            to_array(rb.val)[i] <=> (last.start <= i /\ i < last.end)
    /\ (IsRule /\ last.op = "from_range_inclusive" /\ last.end <= MaxCount) =>
        /\ status = "ok"
        /\ rb.tag = "Ok"
        /\ \A i \in Counts :
            to_array(rb.val)[i] <=> (last.start <= i /\ i <= last.end)

\* The range given to the last conversion contains a count above MaxCount.
RangeHasInvalidCount ==
    \/ last.op = "from_range" /\ last.start < last.end /\ last.end > MaxCount + 1
    \/ last.op = "from_range_inclusive" /\ last.start <= last.end /\ last.end > MaxCount

\* C13 (as claimed): converting a range that contains a count above the
\* maximum (8 in 2D, 26 in 3D) panics and yields no bitset.
C13_RangeRejection ==
    (IsRule /\ last.op \in {"from_range", "from_range_inclusive"}
        /\ RangeHasInvalidCount) =>
        status = "panic" /\ rb = Panic

\* C14: after r1 | r2, entry i of the result's array is the disjunction of
\* the operands' entries for every valid count i, and r1.or_with(r2) is the
\* same value.
C14_RuleComposition ==
    (IsRule /\ last.op = "bitor") =>
        /\ \A i \in Counts :
            to_array(rb.val)[i] <=> (to_array(last.lhs)[i] \/ to_array(last.rhs)[i])
        /\ Ok(or_with(last.lhs, last.rhs)) = rb

\* C14 witness: two disjoint non-empty 3D bitsets have been or-ed.
C14_Witness ==
    /\ kind = "Rule3" /\ last.op = "bitor"
    /\ last.lhs = {13} /\ last.rhs = {0, 26}
    /\ rb = Ok({0, 13, 26})

\* C15 (as claimed): every value r a constructor or | has returned
\* satisfies from_array(r.to_array()) = r.
C15_ArrayRoundTrip ==
    (IsRule /\ rb.tag = "Ok") => from_array(to_array(rb.val)) = rb

-----------------------------------------------------------------------------
(* The codec under test: bit_to_byte and decompress_block on chosen words *)

\* Words given to bit_to_byte: every byte, and words with higher bits set.
CodecWords == (SUBSET (0..7)) \cup {{8}, {0, 9}, {7, 63}, 8..15, Bits64}

\* Bit shapes of one byte, placed in each byte of a block.
ByteShapes == {{0}, {7}, {0, 7}, {1, 2, 4}, {0, 2, 4, 6}, 0..7}

\* Blocks given to decompress_block: empty, full, one bit set, one bit
\* clear, and one byte of each shape at each byte position.
CodecBlocks ==
    {{}, Bits64}
    \cup {{i} : i \in Bits64}
    \cup {Bits64 \ {i} : i \in Bits64}
    \cup {{8 * k + j : j \in w} : k \in Lanes, w \in ByteShapes}

CodecCall(op, res) ==
    /\ last' = op
    /\ rb' = Ok(res)
    /\ nops' = 1
    /\ UNCHANGED <<kind, size, data, overflow_checks, status, prev>>

BitToByte ==
    /\ kind = "Codec" /\ nops = 0
    /\ \E b \in CodecWords :
        CodecCall([op |-> "bit_to_byte", b |-> b], bit_to_byte(b))

DecompressBlock ==
    /\ kind = "Codec" /\ nops = 0
    /\ \E b \in CodecBlocks :
        CodecCall([op |-> "decompress_block", b |-> b], decompress_block(b))

InitCodec ==
    /\ kind = "Codec"
    /\ size = <<>>
    /\ data = <<>>
    /\ overflow_checks = TRUE
    /\ status = "ok"
    /\ prev = None
    /\ last = [op |-> "none"]
    /\ nops = 0
    /\ rb = None

NextCodec == BitToByte \/ DecompressBlock

SpecCodec == InitCodec /\ [][NextCodec]_vars

-----------------------------------------------------------------------------
(* Properties of the codec (checked under SpecCodec) *)

\* C17: for b in 0..=255, byte k of bit_to_byte(b) is bit k of b (so every
\* byte is 0 or 1).
C17_BitToByte ==
    (kind = "Codec" /\ last.op = "bit_to_byte" /\ last.b \subseteq 0..7) =>
        \A k \in Lanes :
            ToLane(rb.val)[k] = (IF k \in last.b THEN 1 ELSE 0)

\* C17 witness: bit_to_byte(0b0001_0011) = 0x0000_0001_0000_0101.
C17_Witness ==
    /\ kind = "Codec" /\ last.op = "bit_to_byte"
    /\ last.b = {0, 1, 4}
    /\ rb = Ok({0, 8, 32})

\* C18: for every block b and i in 0..63, byte i mod 8 of word i div 8 of
\* decompress_block(b) is bit i of b (so every byte is 0 or 1).
C18_DecompressBlock ==
    (kind = "Codec" /\ last.op = "decompress_block") =>
        \A i \in Bits64 :
            rb.val[i \div 8][i % 8] = (IF i \in last.b THEN 1 ELSE 0)

\* C18 witness: a block with bits in two different bytes has been
\* decompressed.
C18_Witness ==
    /\ kind = "Codec" /\ last.op = "decompress_block"
    /\ last.b = Bits64 \ {42}
    /\ rb.val[5][2] = 0 /\ rb.val[5][3] = 1 /\ rb.val[0][0] = 1

-----------------------------------------------------------------------------
(* Cubes: Grid3 of size NxNxN with N a whole number of blocks *)

CubeSizes == {<<4, 4, 4>>, <<8, 8, 8>>}

\* Coordinates written along an axis of length n: the grid borders, a cell
\* inside a block, and the cells on each side of the block boundary.
CubeCoords(n) == {c \in 0..(n - 1) : c \in {0, 1, 3, 4, n - 1}}

CubePositions(sz) ==
    {<<x, y, z>> : x \in CubeCoords(sz[1]), y \in CubeCoords(sz[2]),
                   z \in CubeCoords(sz[3])}

\* Grid3::set_cell at a position of the cube.
CubeSetCell ==
    /\ CanCall
    /\ \E pos \in CubePositions(size), value \in BOOLEAN :
        Finish([op |-> "set_cell", pos |-> pos, value |-> value],
               Grid3_set_cell(size, data, pos, value))

\* Grid3::new with a cube size.
InitCube ==
    /\ kind = "Grid3"
    /\ size \in CubeSizes
    /\ data = <<>>
    /\ overflow_checks = TRUE
    /\ status = "ok"
    /\ prev = <<>>
    /\ last = [op |-> "new"]
    /\ nops = 0
    /\ rb = None

NextCube == Fill \/ CubeSetCell \/ ApplyRule

SpecCube == InitCube /\ [][NextCube]_vars

-----------------------------------------------------------------------------
(* Properties of the cubes (checked under SpecCube) *)

\* Every block of dat is the word w, and dat has all the blocks of the grid.
AllBlocks(dat, w) ==
    /\ DOMAIN dat = 0..(bitblock_count - 1)
    /\ \A i \in DOMAIN dat : dat[i] = w

\* The entry of the counting buffer for the in-range position q.
EntryOf(q) == Grid3_resolve(size, q).val[1] * 64 + Grid3_resolve(size, q).val[2]

\* C19: on an 8x8x8 Grid3 that is dead but for the cell p just set, the
\* separable counter holds 1 at the entry of every in-grid Moore neighbour
\* of p and 0 at each of the other entries of the 512-byte buffer, the entry
\* of p included.
C19_SingleCellCounts ==
    (kind = "Grid3" /\ size = <<8, 8, 8>> /\ status = "ok"
        /\ last.op = "set_cell" /\ last.value /\ AllBlocks(prev, {})) =>
        LET counts == separable_blocks(size, data)
            ones == {EntryOf(q) : q \in {r \in Moore(last.pos) : InRange(size, r)}}
        IN  /\ DOMAIN counts = 0..7
            /\ \A n \in 0..511 :
                CountsAt(counts, n) = (IF n \in ones THEN 1 ELSE 0)

\* C19 witness: the one alive cell is (3,3,3), the last cell of block 0, whose
\* neighbours lie in all 8 blocks.
C19_Witness ==
    /\ kind = "Grid3" /\ size = <<8, 8, 8>> /\ status = "ok"
    /\ last = [op |-> "set_cell", pos |-> <<3, 3, 3>>, value |-> TRUE]
    /\ AllBlocks(prev, {})
    /\ data[0] = {63}

\* The number of outer faces of the cube that p lies on.
Faces(p) == Cardinality({a \in 1..3 : p[a] = 0 \/ p[a] = size[a] - 1})

\* C20: after fill(true) and one apply_rule(Rule3::SMOOTH) on a 4x4x4 or
\* 8x8x8 Grid3, a cell is dead iff it lies on two or more outer faces.
C20_SmoothFullCube ==
    (kind = "Grid3" /\ size \in CubeSizes /\ status = "ok"
        /\ last.op = "apply_rule" /\ last.rule = Rule3_SMOOTH
        /\ AllBlocks(prev, Bits64)) =>
        \A p \in InRangePositions(size) :
            Grid3_cell(size, data, p) = Some(Faces(p) < 2)

\* C20 witness: the full 8x8x8 cube has been smoothed: an edge cell is dead, a
\* face cell and an inner cell are alive.
C20_Witness ==
    /\ kind = "Grid3" /\ size = <<8, 8, 8>> /\ status = "ok"
    /\ last.op = "apply_rule" /\ last.rule = Rule3_SMOOTH
    /\ AllBlocks(prev, Bits64)
    /\ Grid3_cell(size, data, <<0, 0, 3>>) = Some(FALSE)
    /\ Grid3_cell(size, data, <<0, 3, 3>>) = Some(TRUE)
    /\ Grid3_cell(size, data, <<4, 3, 3>>) = Some(TRUE)

-----------------------------------------------------------------------------
(* Further properties of the grids (checked under Spec) *)

\* The number of Moore neighbours of p counted alive in dat: a position of
\* the grid counts if its cell is alive, one outside the grid if default.
NeighboursWithDefault(dat, p, default) ==
    Cardinality({q \in Moore(p) :
        IF InRange(size, q) THEN CellOf(dat, q) = Some(TRUE) ELSE default})

\* C21 (as claimed): on a filled Grid3, count_neighbors(default) holds at the
\* entry of every in-range cell the number of its alive Moore neighbours,
\* the positions outside the grid counting as alive iff default.
C21_BoundaryDefault ==
    (kind = "Grid3" /\ Filled /\ status = "ok") =>
        \A default \in BOOLEAN :
            LET counts == Grid3_count_neighbors(size, data, default)
            IN  \A p \in InRangePositions(size) :
                    CountsAt(counts, EntryOf(p)) = NeighboursWithDefault(data, p, default)

\* The cells on the outer shell of the grid: a coordinate is 0 or size - 1.
BorderPositions ==
    {p \in InRangePositions(size) : \E a \in DOMAIN size : p[a] = 0 \/ p[a] = size[a] - 1}

\* C22 (as claimed): the caller having chosen the alive-border policy, every
\* cell of the outer shell is alive after apply_rule, whatever the rule and
\* the generation before. (apply_rule takes the rule alone, so every call
\* is a call this is asked of.)
C22_BorderForcedAlive ==
    (IsGrid /\ last.op = "apply_rule" /\ status = "ok") =>
        \A p \in BorderPositions : CellOf(data, p) = Some(TRUE)

\* C23: after fill_rand the data is the block array drawn from (size, ratio,
\* PRNG state) alone, whatever the grid held before the call.
C23_FillRandDeterminism ==
    (IsGrid /\ last.op = "fill_rand") =>
        /\ status = "ok"
        /\ data = fill_rand(bitblock_count, last.fill_ratio, last.seed)

\* C23 witness: fill_rand has run on a Grid3 that fill(true) had set to all
\* ones, and has cleared bits.
C23_Witness ==
    /\ kind = "Grid3" /\ size = <<4, 8, 8>>
    /\ last.op = "fill_rand" /\ last.fill_ratio = 2
    /\ AllBlocks(prev, Bits64)
    /\ \E i \in DOMAIN data : data[i] # Bits64

\* ceil(a / b)
CeilDiv(a, b) == IF a % b = 0 THEN a \div b ELSE a \div b + 1

\* The number of blocks a grid of the size under test has.
ExpectedBlocks ==
    IF kind = "Grid2" THEN CeilDiv(size[1], 8) * CeilDiv(size[2], 8)
    ELSE CeilDiv(size[1], 4) * CeilDiv(size[2], 4) * CeilDiv(size[3], 4)

\* C24: fill and fill_rand leave len(data) = ceil(W/8) * ceil(H/8) (Grid2) or
\* ceil(W/4) * ceil(H/4) * ceil(D/4) (Grid3); set_cell and apply_rule leave
\* len(data) as it was.
C24_BlockCount ==
    /\ (IsGrid /\ last.op \in {"fill", "fill_rand"}) =>
        DOMAIN data = 0..(ExpectedBlocks - 1)
    /\ (IsGrid /\ last.op \in {"set_cell", "apply_rule"}) =>
        DOMAIN data = DOMAIN prev

\* C24 witness: a 5x5x4 Grid3 holds its 4 blocks after fill and apply_rule.
C24_Witness ==
    /\ kind = "Grid3" /\ size = <<5, 5, 4>>
    /\ last.op = "apply_rule" /\ status = "ok"
    /\ DOMAIN data = 0..3 /\ DOMAIN prev = 0..3

\* C25 (as claimed): on a filled Grid3, count_neighbors_ref(default) holds
\* count_neighbors_single(p, default) at index z * H * W + y * W + x for
\* every in-range p = (x, y, z), the inner slabs included.
C25_ReferenceCoversGrid ==
    (kind = "Grid3" /\ Filled /\ status = "ok") =>
        \A default \in BOOLEAN :
            LET ref == Grid3_count_neighbors_ref(size, data, default)
            IN  \A p \in InRangePositions(size) :
                    /\ ref.tag = "Ok"
                    /\ Ok(ref.val[p[3] * size[2] * size[1] + p[2] * size[1] + p[1]])
                        = Grid3_count_neighbors_single(size, data, p, default)

\* The buffers of count_neighbors_separable_m on the grid under test, after
\* each of its three passes.
BlockCount3 == <<(size[1] + 3) \div 4, (size[2] + 3) \div 4, (size[3] + 3) \div 4>>
AfterAccX == acc_x(data, BlockCount3)
AfterAccY == acc_y(AfterAccX, BlockCount3)
AfterAccZ == acc_z(AfterAccY, BlockCount3)

\* C26: on a filled Grid3, whatever the blocks hold, every byte of the
\* buffer is <= 3 after acc_x, <= 9 after acc_y and <= 27 after acc_z (so no
\* lane addition carries into the next byte), the subtraction of the cell
\* itself does not underflow, and every final count is <= 26.
C26_NoLaneOverflow ==
    (kind = "Grid3" /\ Filled /\ status = "ok") =>
        LET cx == acc_x(data, BlockCount3)
            cy == acc_y(cx, BlockCount3)
            cz == acc_z(cy, BlockCount3)
        IN  \A ib \in DOMAIN data :
                LET self == decompress_block(data[ib])
                IN  \A i \in Lanes, k \in Lanes :
                        /\ cx[ib][i][k] <= 3
                        /\ cy[ib][i][k] <= 9
                        /\ cz[ib][i][k] <= 27
                        /\ cz[ib][i][k] >= self[i][k]
                        /\ U8Sub(cz[ib][i][k], self[i][k]) <= 26

\* C26 witness: on the full 4x8x8 grid the cell (1,3,3), whose 3x3x3 box
\* spans four blocks, reaches the largest sums: 3, 9 and 27.
C26_Witness ==
    /\ kind = "Grid3" /\ size = <<4, 8, 8>> /\ status = "ok"
    /\ AllBlocks(data, Bits64)
    /\ CountsAt(AfterAccX, EntryOf(<<1, 3, 3>>)) = 3
    /\ CountsAt(AfterAccY, EntryOf(<<1, 3, 3>>)) = 9
    /\ CountsAt(AfterAccZ, EntryOf(<<1, 3, 3>>)) = 27

\* C27 (as claimed): a set_cell(p, v) at an in-range p of a filled grid
\* leaves cell(q) as it was for every in-range q other than p.
C27_SetCellFrame ==
    (IsGrid /\ last.op = "set_cell" /\ status = "ok" /\ InRange(size, last.pos)) =>
        \A q \in InRangePositions(size) \ {last.pos} :
            CellOf(data, q) = CellOf(prev, q)

\* C28 (as claimed): in every reachable state, the grid just built
\* included, cell(p) at an in-range p returns Some(_), and set_cell at an
\* in-range p and apply_rule (on a grid without a zero dimension: its
\* size - 1 is the matter of C9) return without a panic.
C28_NoOutOfBoundsAccess ==
    /\ (IsGrid /\ status = "ok") =>
        \A p \in InRangePositions(size) : CellOf(data, p).tag = "Some"
    /\ (IsGrid /\ last.op = "set_cell" /\ InRange(size, last.pos)) => status = "ok"
    /\ (IsGrid /\ last.op = "apply_rule" /\ ~Underflows(size)) => status = "ok"

\* The (block, bit) of cell p in the 8x8 tile layout: blocks in row-major
\* block order, bits in row-major order within the tile.
TileOf(p) ==
    <<(p[2] \div 8) * CeilDiv(size[1], 8) + (p[1] \div 8), (p[2] % 8) * 8 + (p[1] % 8)>>

\* C30 (as claimed): Grid2 addresses cell (x, y) at block
\* (y/8) * ceil(W/8) + x/8, bit (y%8) * 8 + x%8, and set_cell writes that bit.
C30_Grid2TileLayout ==
    /\ kind = "Grid2" =>
        \A p \in InRangePositions(size) : Grid2_index_bit(size, p) = TileOf(p)
    /\ (kind = "Grid2" /\ last.op = "set_cell" /\ status = "ok"
            /\ InRange(size, last.pos)) =>
        (TileOf(last.pos)[2] \in data[TileOf(last.pos)[1]]) <=> last.value

-----------------------------------------------------------------------------
(* Further properties of the codec (checked under SpecCodec) *)

\* C29 (as claimed): bit_to_byte(b) = bit_to_byte(b & 0xFF) for every word
\* b, and every byte of the result is 0 or 1.
C29_BitToByteLowBits ==
    (kind = "Codec" /\ last.op = "bit_to_byte") =>
        /\ rb.val = bit_to_byte(last.b \cap (0..7))
        /\ \A k \in Lanes : ToLane(rb.val)[k] \in {0, 1}

=============================================================================
